---- MODULE Spec2Model ----
(***************************************************************************)
(* Callback-delivery subsystem of the sync/async API: the bounded job      *)
(* queue, the worker pool draining it, the callback dispatcher with its    *)
(* retry loop, the status records kept in the request store, and the two   *)
(* endpoints that create those records.                                    *)
(*                                                                         *)
(* One step of the model is one atomic section of the asyncio program:     *)
(* the code between two awaits that really suspend (a store read or        *)
(* write, the executor, the HTTP POST, the backoff sleep, queue.get).      *)
(* Every store operation may raise; the number of injected exceptions is   *)
(* bounded by MaxFaults.                                                   *)
(*                                                                         *)
(* Spec is the whole program. LiveSpec is the program whose pool is never  *)
(* stopped, with fair scheduling of the worker tasks. ValidatorSpec is one *)
(* async request with an arbitrary callback URL. RebindSpec is one async   *)
(* request whose callback host changes its address at any moment.          *)
(* RequestSpec is a sync and an async request with arbitrary bodies, valid *)
(* or not.                                                                 *)
(***************************************************************************)
EXTENDS Integers, Sequences, FiniteSets, TLC

\* ---------------------------------------------------------------- bounds
MaxRequests == 2
MaxFaults == 1

\* ------------------------------------------------- settings (config.py)
\* the settings are read from the environment (prefix APP_); the scenario
\* values are chosen small: two workers, a queue of one or two jobs, and a
\* delay cap that the third backoff delay reaches
async_worker_count == 2
QueueSizes == {1, 2}
callback_max_retries == 3
callback_retry_base_delay == 1000       \* milliseconds
callback_retry_max_delay == 3000        \* milliseconds
callback_block_private_ips == TRUE
callback_allowed_schemes == {"http", "https"}

Rids == 1..MaxRequests
Workers == 0..(async_worker_count - 1)

\* --------------------------------------------------- RequestStatus enum
PENDING == "pending"
PROCESSING == "processing"
COMPLETED == "completed"
CALLBACK_PENDING == "callback_pending"
CALLBACK_SUCCESS == "callback_success"
CALLBACK_FAILED == "callback_failed"
Absent == "absent"                      \* no row for this id in the store

None == "None"
ERR_BLOCKED == "Callback URL blocked by security policy"
ERR_QUEUE_FULL == "Server overloaded - queue full"
ERR_EXECUTOR == "executor error"        \* str(e) of an executor exception
ERR_STORE == "store error"              \* str(e) of a store exception
ERR_POST == "unexpected post error"     \* str(e) of a non-httpx exception
\* what one POST can end in: a response with a status code, a timeout
\* (httpx.TimeoutException) or a transport error (httpx.RequestError)
StatusCodes == {200, 204, 500}
HttpError(status_code) == "HTTP " \o ToString(status_code)
TransportErrors == {"Timeout", "ConnectError"}
MaxRetriesExceeded(e) == "Max retries exceeded: " \o e

\* ------------------------------------------------------- backoff delay
\* 0.5 + random.random() lies in [0.5, 1.5): in thousandths
Jitter == {500, 1000, 1499}
Min(a, b) == IF a < b THEN a ELSE b
\* mutant: the exponent is the index of the coming attempt
BackoffDelay_NextPower(attempt, jitter) ==
    (Min(callback_retry_base_delay * (2 ^ (attempt + 1)), callback_retry_max_delay) * jitter)
        \div 1000

\* _deliver_callback, lines 245-249, in milliseconds
BackoffDelay(attempt, jitter) ==
    (Min(callback_retry_base_delay * (2 ^ attempt), callback_retry_max_delay) * jitter)
        \div 1000

\* ----------------------------------------------------------------- URLs
NoUrl == [scheme |-> "", host |-> ""]
Hosts == {"example.com", "127.0.0.1", "LocalHost", "localhost", "::1", "0.0.0.0",
          "10.0.0.1", "169.254.169.254", "240.0.0.1", "224.0.0.1", "nx.invalid",
          "[bad"}
\* urlparse raises ValueError on a netloc with an unbalanced bracket
Parses(url) == url.host # "[bad"
Lower(h) == IF h = "LocalHost" THEN "localhost" ELSE h
\* socket.gethostbyname + ipaddress classification; "fail" is gaierror
\* the name whose address record is under the control of whoever chose the
\* callback URL, and the networks it can point to
RebindHost == "rebind.test"
RebindNets == {"public", "loopback"}
VARIABLE dns      \* the network RebindHost resolves to
\* socket.gethostbyname and ipaddress.ip_address: the network of the address
\* the name resolves to at this moment
Resolve(h) ==
    CASE h = RebindHost -> dns
      [] h = "example.com" -> "public"
      [] h = "127.0.0.1" -> "loopback"
      [] h = "LocalHost" -> "loopback"
      [] h = "localhost" -> "loopback"
      [] h = "0.0.0.0" -> "private"
      [] h = "10.0.0.1" -> "private"
      [] h = "169.254.169.254" -> "link_local"
      [] h = "240.0.0.1" -> "reserved"
      [] h = "224.0.0.1" -> "multicast"
      [] OTHER -> "fail"              \* "::1" is no IPv4 name either

\* mutant: only the private ranges are blocked
is_private_ip_OnlyPrivate(hostname) ==
    IF Resolve(hostname) = "fail" THEN TRUE
    ELSE Resolve(hostname) = "private"

is_private_ip(hostname) ==
    IF Resolve(hostname) = "fail" THEN TRUE
    ELSE Resolve(hostname) \in {"private", "loopback", "link_local", "reserved", "multicast"}

\* mutant: the scheme is not checked
_is_safe_callback_url_AnyScheme(url) ==
    IF ~Parses(url) THEN FALSE
    ELSE IF callback_block_private_ips
         THEN IF Lower(url.host) \in {"localhost", "127.0.0.1", "::1", "0.0.0.0"} THEN FALSE
              ELSE IF is_private_ip(url.host) THEN FALSE
              ELSE TRUE
         ELSE TRUE

\* the first branch is the except clause around urlparse
_is_safe_callback_url(url) ==
    IF ~Parses(url) THEN FALSE
    ELSE IF url.scheme \notin callback_allowed_schemes THEN FALSE
    ELSE IF callback_block_private_ips
         THEN IF Lower(url.host) \in {"localhost", "127.0.0.1", "::1", "0.0.0.0"} THEN FALSE
              ELSE IF is_private_ip(url.host) THEN FALSE
              ELSE TRUE
         ELSE TRUE

\* callback URLs the async endpoint is called with (they passed the
\* payload validator, so the scheme is http or https)
JobUrls == {[scheme |-> "http", host |-> "example.com"],
            [scheme |-> "https", host |-> "127.0.0.1"]}
\* the URLs a job can be handed to the pool with: the validator does not
\* rely on the prefix check of the request layer
ValidatorUrls == [scheme : {"http", "https", "ftp"}, host : Hosts]
RebindUrl == [scheme |-> "http", host |-> RebindHost]
\* a host name that makes the URL longer than 2048 characters
LongHost == "aaa...a.example.com"
UrlLen(u) == IF u.host = LongHost THEN 2049 ELSE 24
\* the callback URLs a client can send to the async endpoint
RequestUrls == {[scheme |-> "http", host |-> "example.com"],
                [scheme |-> "ftp", host |-> "example.com"],
                [scheme |-> "https", host |-> LongHost]}
\* AsyncWorkPayload.validate_callback_url
ValidCallbackUrl(u) == u.scheme \in {"http", "https"} /\ UrlLen(u) <= 2048

\* ------------------------------------------------------- work executor
HashMod == 11
Sha(x) == (x * 7 + 3) % HashMod
RECURSIVE IterHash(_, _, _)
IterHash(h, i, n) == IF i >= n THEN h ELSE IterHash(Sha(h * 5 + i), i + 1, n)

\* the texts a request body carries as data: empty, blank, and two words
Data == {"", "  ", "a", "b"}
\* len(v) and v.strip()
DataLen(d) == CASE d = "" -> 0 [] d = "  " -> 2 [] OTHER -> 1
Strip(d) == IF d = "  " THEN "" ELSE d
\* data.encode(): the bytes that are hashed
Encode(d) == CASE d = "a" -> 1 [] d = "b" -> 0 [] d = "  " -> 2 [] OTHER -> 3
\* the iteration counts a request body carries: the bounds of the field are
\* 1 and 1000000
Iterations == {0, 1, 2, 1000001}
Bodies == [data : Data, iterations : Iterations]
\* the body request r arrives with
DefaultBody(r) == [data |-> IF r % 2 = 1 THEN "a" ELSE "b", iterations |-> 2]
VARIABLE body     \* the request bodies of the scenario
\* mutant: blank data passes the field validator
ValidWork_NoStrip(b) ==
    /\ 1 <= DataLen(b.data) /\ DataLen(b.data) <= 10000
    /\ 1 <= b.iterations /\ b.iterations <= 1000000
\* WorkPayload: data has 1 to 10000 characters and is not blank,
\* iterations lies in 1..1000000
ValidWork(b) ==
    /\ 1 <= DataLen(b.data) /\ DataLen(b.data) <= 10000
    /\ Strip(b.data) # ""
    /\ 1 <= b.iterations /\ b.iterations <= 1000000
PayloadOf(r) == body[r]
NoResult == [request_id |-> 0, input_hash |-> 0, output_hash |-> 0, iterations |-> 0]
\* mutant: the request id is hashed together with the data
compute_work_sync_Salted(request_id, payload) ==
    [request_id |-> request_id,
     input_hash |-> Sha(Encode(payload.data) + request_id),
     output_hash |-> IterHash(Sha(Encode(payload.data) + request_id), 0, payload.iterations),
     iterations |-> payload.iterations]

compute_work_sync(request_id, payload) ==
    [request_id |-> request_id,
     input_hash |-> Sha(Encode(payload.data)),
     output_hash |-> IterHash(Sha(Encode(payload.data)), 0, payload.iterations),
     iterations |-> payload.iterations]

\* run_in_executor(None, compute_work_sync, request_id, payload)
compute_work_async(request_id, payload) == compute_work_sync(request_id, payload)

\* ------------------------------------------------------- RequestRecord
NoRecord ==
    [id |-> 0, mode |-> "", status |-> Absent, callback_url |-> NoUrl,
     callback_attempts |-> 0, callback_last_error |-> None,
     result |-> NoResult, completed |-> FALSE]
\* mutant: every record is created as PROCESSING
NewRecord_Processing(r, mode, status, url) ==
    [id |-> r, mode |-> mode, status |-> PROCESSING, callback_url |-> url,
     callback_attempts |-> 0, callback_last_error |-> None,
     result |-> NoResult, completed |-> FALSE]
\* RequestRecord as the endpoints build it (main.py 94-100, 136-143)
NewRecord(r, mode, status, url) ==
    [id |-> r, mode |-> mode, status |-> status, callback_url |-> url,
     callback_attempts |-> 0, callback_last_error |-> None,
     result |-> NoResult, completed |-> FALSE]
Exists(rec) == rec.status # Absent

NoJob == [request_id |-> 0, callback_url |-> NoUrl]
NoUpd == [success |-> FALSE, error |-> None]
\* CallbackPayload (models.py 82-88)
NoPayload == [request_id |-> 0, status |-> "", result |-> NoResult, timestamp |-> 0]
IdleWorker ==
    [pc |-> "idle", job |-> NoJob, record |-> NoRecord, attempt |-> 0,
     last_error |-> None, upd |-> NoUpd, fresh |-> NoRecord, delay |-> 0,
     payload |-> NoPayload]
NoWorker == [IdleWorker EXCEPT !.pc = "none"]

VARIABLES
    async_queue_max_size,  \* settings.async_queue_max_size, the queue's maxsize
    queue,        \* asyncio.Queue contents: sequence of jobs
    db,           \* the requests table: id -> RequestRecord
    running,      \* CallbackWorkerPool.running
    http_client,  \* TRUE while self.http_client is an open client
    active,       \* CallbackWorkerPool._active_workers
    stopping,     \* stop() is waiting in asyncio.gather
    cancelled,    \* workers whose task has a pending cancel()
    req,          \* per request id: position of its endpoint handler
    wk,           \* per worker: position and locals of its task
    workers_len,  \* len(self.workers), the tasks the pool keeps track of
    posts,        \* history: POSTs issued per request id
    hist,         \* history: per request id, what happened to it
    nfaults       \* history: injected exceptions so far

vars == <<async_queue_max_size, dns, body, queue, db, running, http_client, active, stopping,
          cancelled, req, wk, workers_len, posts, hist, nfaults>>
\* what no endpoint and no step of a job changes
poolVars == <<async_queue_max_size, dns, body, workers_len, running, http_client, stopping, cancelled>>

\* success is the flag enqueue returned to async_endpoint
NewReq == [pc |-> "new", record |-> NoRecord, success |-> "unset"]
\* history of request r: a worker dequeued its job (taken); a POST for it
\* was answered 2xx (got2xx); its executor raised (execRaised); a store
\* operation or the POST raised unexpectedly (fault); its worker was
\* cancelled in the middle of the job (abandoned); backoff sleeps completed
\* for it (sleeps); while it waits in the queue, the number of jobs that
\* were in the queue when it was put there (ahead); a POST for it was sent
\* while its URL resolved to a blocked network (unsafe); the POSTs issued
\* for it, in order (sent); while it waits in the queue, whether the pool
\* was not running when it was put there (cold)
NoHist == [got2xx |-> FALSE, execRaised |-> FALSE, fault |-> FALSE, taken |-> FALSE,
           abandoned |-> FALSE, sleeps |-> 0, ahead |-> 0, unsafe |-> FALSE,
           sent |-> <<>>, cold |-> FALSE]

\* the state after construction, whatever bodies the requests will carry
InitState ==
    /\ async_queue_max_size \in QueueSizes
    /\ dns = "public"
    /\ queue = <<>>
    /\ db = [r \in Rids |-> NoRecord]
    /\ running = FALSE
    /\ http_client = FALSE
    /\ active = 0
    /\ stopping = FALSE
    /\ cancelled = {}
    /\ req = [r \in Rids |-> NewReq]
    /\ wk = [w \in Workers |-> NoWorker]
    /\ workers_len = 0
    /\ posts = [r \in Rids |-> 0]
    /\ hist = [r \in Rids |-> NoHist]
    /\ nfaults = 0

Init ==
    /\ body = [r \in Rids |-> DefaultBody(r)]
    /\ InitState

\* ---------------------------------------------------------- the store
\* database.save_request: INSERT OR REPLACE of the whole row
save_request(record) == db' = [db EXCEPT ![record.id] = record]
\* database.get_request
get_request(r) == db[r]

\* an injected exception while request r is handled
Fault(r) ==
    /\ nfaults < MaxFaults
    /\ nfaults' = nfaults + 1
    /\ hist' = [hist EXCEPT ![r].fault = TRUE]
NoFault == UNCHANGED <<nfaults, hist>>


\* ------------------------------------------------ CallbackWorkerPool.enqueue
\* mutant: the capacity test is off by one
QueueFull_OffByOne(q) == async_queue_max_size > 0 /\ Len(q) > async_queue_max_size
\* asyncio.Queue.full(): maxsize <= 0 means unbounded
QueueFull(q) == async_queue_max_size > 0 /\ Len(q) >= async_queue_max_size
\* mutant: the rejected job is left in the queue
enqueue_Overfill(q, job) ==
    IF QueueFull(q) THEN [ok |-> FALSE, queue |-> Append(q, job)]
    ELSE [ok |-> TRUE, queue |-> Append(q, job)]

\* mutant: put_nowait never raises QueueFull
enqueue_NoLimit(q, job) == [ok |-> TRUE, queue |-> Append(q, job)]

\* mutant: enqueue refuses jobs while the pool is not running
enqueue_OnlyRunning(q, job) ==
    IF ~running \/ QueueFull(q) THEN [ok |-> FALSE, queue |-> q]
    ELSE [ok |-> TRUE, queue |-> Append(q, job)]

\* put_nowait inside try/except QueueFull: the returned flag and the queue after
enqueue(q, job) ==
    IF QueueFull(q) THEN [ok |-> FALSE, queue |-> q]
    ELSE [ok |-> TRUE, queue |-> Append(q, job)]

\* CallbackWorkerPool.get_stats; self.workers holds the tasks from start()
\* until stop() clears the list
get_stats ==
    [queue_size |-> Len(queue),
     queue_capacity |-> async_queue_max_size,
     active_workers |-> active,
     total_workers |-> workers_len]

\* ------------------------------------------------------------ endpoints
\* request ids are fresh uuids: id r is handed out after id r - 1. The
\* clients send one request at a time: the next one comes after the
\* previous one was answered
Answered(r) == req[r].pc \in {"accepted", "rejected", "done", "error", "invalid"}
Fresh(r) == req[r].pc = "new" /\ (IF r = 1 THEN TRUE ELSE Answered(r - 1))
\* the HTTP status the endpoint answers with (0: not answered yet): 503
\* from the HTTPException of line 154, 500 from the exception handlers, 422
\* from the validation of the request body
Response(r) ==
    CASE req[r].pc \in {"accepted", "done"} -> 200
      [] req[r].pc = "rejected" -> 503
      [] req[r].pc = "error" -> 500
      [] req[r].pc = "invalid" -> 422
      [] OTHER -> 0

\* the body of request r, sent with callback_url u where the endpoint takes
\* one, does not pass the validators of its model: the endpoint function is
\* not entered
Unprocessable(r) ==
    /\ Fresh(r)
    /\ \/ ~ValidWork(body[r])
       \/ \E u \in RequestUrls : ~ValidCallbackUrl(u)
    /\ req' = [req EXCEPT ![r].pc = "invalid"]
    /\ UNCHANGED <<queue, db, active, wk, posts, hist, nfaults, poolVars>>

\* async_endpoint, lines 133-144, called with callback_url u: build the
\* record, first save
AsyncSaveUrl(r, u) ==
    /\ Fresh(r)
    /\ ValidWork(body[r])
    /\ LET record == NewRecord(r, "async", PENDING, u) IN
        \/ /\ save_request(record)
           /\ req' = [req EXCEPT ![r] = [pc |-> "a_enqueue", record |-> record, success |-> "unset"]]
           /\ NoFault
        \/ /\ Fault(r)
           /\ req' = [req EXCEPT ![r] = [pc |-> "error", record |-> record, success |-> "unset"]]
           /\ UNCHANGED db
    /\ UNCHANGED <<queue, active, wk, posts, poolVars>>

AsyncSave(r) == \E u \in JobUrls : ValidCallbackUrl(u) /\ AsyncSaveUrl(r, u)

\* the async endpoint called with any callback URL that passes validation
AsyncRequest(r) == \E u \in RequestUrls : ValidCallbackUrl(u) /\ AsyncSaveUrl(r, u)

\* async_endpoint, lines 146-162: enqueue, then accept or start rejecting
AsyncEnqueue(r) ==
    /\ req[r].pc = "a_enqueue"
    /\ LET job == [request_id |-> r, callback_url |-> req[r].record.callback_url]
           res == enqueue(queue, job)
       IN /\ queue' = res.queue
          /\ IF res.ok
             THEN req' = [req EXCEPT ![r].pc = "accepted", ![r].success = "True"]
             ELSE req' = [req EXCEPT ![r] =
                        [pc |-> "a_reject", success |-> "False",
                         record |-> [@.record EXCEPT !.status = CALLBACK_FAILED,
                                         !.callback_last_error = ERR_QUEUE_FULL]]]
          /\ hist' = IF res.ok
                     THEN [hist EXCEPT ![r].ahead = Len(queue), ![r].cold = ~running]
                     ELSE hist
    /\ UNCHANGED <<db, active, wk, posts, nfaults, poolVars>>

\* async_endpoint, lines 153-157: save the rejection, answer 503
AsyncReject(r) ==
    /\ req[r].pc = "a_reject"
    /\ \/ /\ save_request(req[r].record)
          /\ req' = [req EXCEPT ![r].pc = "rejected"]
          /\ NoFault
       \/ /\ Fault(r)
          /\ req' = [req EXCEPT ![r].pc = "error"]
          /\ UNCHANGED db
    /\ UNCHANGED <<queue, active, wk, posts, poolVars>>

\* sync_endpoint, lines 91-101
SyncSave(r) ==
    /\ Fresh(r)
    /\ ValidWork(body[r])
    /\ LET record == NewRecord(r, "sync", PROCESSING, NoUrl) IN
        \/ /\ save_request(record)
           /\ req' = [req EXCEPT ![r] = [pc |-> "s_compute", record |-> record, success |-> "unset"]]
           /\ NoFault
        \/ /\ Fault(r)
           /\ req' = [req EXCEPT ![r] = [pc |-> "error", record |-> record, success |-> "unset"]]
           /\ UNCHANGED db
    /\ UNCHANGED <<queue, active, wk, posts, poolVars>>

\* sync_endpoint, lines 105-110 and 115-118: the executor returns or raises
SyncCompute(r) ==
    /\ req[r].pc = "s_compute"
    /\ \/ /\ req' = [req EXCEPT ![r] =
                 [pc |-> "s_save_completed", success |-> "unset",
                  record |-> [@.record EXCEPT !.status = COMPLETED, !.completed = TRUE,
                                  !.result = compute_work_async(r, PayloadOf(r))]]]
          /\ UNCHANGED hist
       \/ /\ req' = [req EXCEPT ![r] =
                 [pc |-> "s_save_failed", success |-> "unset",
                  record |-> [@.record EXCEPT !.status = CALLBACK_FAILED,
                                  !.callback_last_error = ERR_EXECUTOR]]]
          /\ hist' = [hist EXCEPT ![r].execRaised = TRUE]
    /\ UNCHANGED <<queue, db, active, wk, posts, nfaults, poolVars>>

\* sync_endpoint, line 111 (inside the try)
SyncSaveCompleted(r) ==
    /\ req[r].pc = "s_save_completed"
    /\ \/ /\ save_request(req[r].record)
          /\ req' = [req EXCEPT ![r].pc = "done"]
          /\ NoFault
       \/ /\ Fault(r)
          /\ req' = [req EXCEPT ![r] =
                 [pc |-> "s_save_failed", success |-> "unset",
                  record |-> [@.record EXCEPT !.status = CALLBACK_FAILED,
                                  !.callback_last_error = ERR_STORE]]]
          /\ UNCHANGED db
    /\ UNCHANGED <<queue, active, wk, posts, poolVars>>

\* sync_endpoint, lines 119-120
SyncSaveFailed(r) ==
    /\ req[r].pc = "s_save_failed"
    /\ \/ /\ save_request(req[r].record)
          /\ NoFault
       \/ /\ Fault(r)
          /\ UNCHANGED db
    /\ req' = [req EXCEPT ![r].pc = "error"]
    /\ UNCHANGED <<queue, active, wk, posts, poolVars>>

\* ------------------------------------------------------ start and stop
\* CallbackWorkerPool.start; start() and stop() are awaited one after the
\* other by lifespan, so start is not run while stop waits in gather
\* mutant: start() does not look at the running flag
start_NoGuard ==
    /\ ~stopping
    /\ running' = TRUE
    /\ http_client' = TRUE
    /\ wk' = IF running THEN wk ELSE [w \in Workers |-> IdleWorker]
    /\ workers_len' = workers_len + async_worker_count
    /\ UNCHANGED <<async_queue_max_size, dns, body, queue, db, active, stopping, cancelled,
                   req, posts, hist, nfaults>>

start ==
    /\ ~stopping
    /\ IF running THEN UNCHANGED <<running, http_client, wk, workers_len>>
       ELSE /\ running' = TRUE
            /\ http_client' = TRUE
            /\ wk' = [w \in Workers |-> IdleWorker]
            /\ workers_len' = workers_len + async_worker_count
    /\ UNCHANGED <<async_queue_max_size, dns, body, queue, db, active, stopping, cancelled,
                   req, posts, hist, nfaults>>

\* CallbackWorkerPool.stop, lines 73-83: clear the flag, cancel every worker
stop_begin ==
    /\ ~stopping
    /\ IF ~running THEN UNCHANGED <<running, stopping, cancelled>>
       ELSE /\ running' = FALSE
            /\ stopping' = TRUE
            /\ cancelled' = {w \in Workers : wk[w].pc \notin {"none", "exited"}}
    /\ UNCHANGED <<async_queue_max_size, dns, body, queue, db, http_client, active, req, wk,
                   workers_len, posts, hist, nfaults>>

\* mutant: stop() closes the client without waiting for the workers
stop_finish_NoWait ==
    /\ stopping
    /\ stopping' = FALSE
    /\ http_client' = FALSE
    /\ workers_len' = 0
    /\ UNCHANGED <<async_queue_max_size, dns, body, queue, db, running, active, cancelled,
                   req, wk, posts, hist, nfaults>>

\* CallbackWorkerPool.stop, lines 83-91: gather returned, clear, close client
stop_finish ==
    /\ stopping
    /\ \A w \in Workers : wk[w].pc \in {"none", "exited"}
    /\ stopping' = FALSE
    /\ wk' = [w \in Workers |-> NoWorker]
    /\ http_client' = FALSE
    /\ workers_len' = 0
    /\ UNCHANGED <<async_queue_max_size, dns, body, queue, db, running, active, cancelled,
                   req, posts, hist, nfaults>>

\* ------------------------------------------------------------- workers
InJob(s) == s.pc \notin {"none", "idle", "exited"}
\* mutant: a worker that has taken a job waits while a worker of lower
\* index is inside a job
Runs_Serial(w) ==
    /\ w \notin cancelled /\ wk[w].pc \notin {"none", "exited"}
    /\ wk[w].pc # "idle" =>
        \A v \in Workers : v < w => wk[v].pc \in {"none", "idle", "exited"}
\* the task of worker w exists and no cancellation is pending for it
Runs(w) == w \notin cancelled /\ wk[w].pc \notin {"none", "exited"}

\* mutant: the counter is not decremented when the job ends
Step_KeepsCount(w, s2) ==
    /\ wk' = [wk EXCEPT ![w] = s2]
    /\ active' = active

\* a step of worker w inside a job: s2.pc = "idle" means _process_request
\* returned or raised, so the finally clause of _worker has run
Step(w, s2) ==
    /\ wk' = [wk EXCEPT ![w] = s2]
    /\ active' = IF s2.pc = "idle" THEN active - 1 ELSE active

\* mutant: the except clause records the error text but not the status
Handler_KeepsStatus(s, e) ==
    IF Exists(s.record)
    THEN [s EXCEPT !.pc = "h_save", !.fresh = NoRecord,
                   !.record = [@ EXCEPT !.callback_last_error = e]]
    ELSE IdleWorker

\* _process_request, lines 171-176: the except clause up to its save
Handler(s, e) ==
    IF Exists(s.record)
    THEN [s EXCEPT !.pc = "h_save", !.fresh = NoRecord,
                   !.record = [@ EXCEPT !.status = CALLBACK_FAILED,
                                        !.callback_last_error = e]]
    ELSE IdleWorker

\* the clock a job reads: it has advanced after every POST and every sleep
utcnow(r) == posts[r] + hist[r].sleeps
\* _deliver_callback, lines 197-202
CallbackPayload(request_id, result) ==
    [request_id |-> request_id, status |-> "success", result |-> result,
     timestamp |-> utcnow(request_id)]

\* mutant: the dispatcher forgets to validate the URL
EnterDeliver_NoCheck(s, result) ==
    [s EXCEPT !.pc = "d_post", !.attempt = 0, !.last_error = None,
              !.payload = CallbackPayload(s.job.request_id, result)]

\* _deliver_callback, lines 186-205: validate the URL, build the payload
EnterDeliver(s, result) ==
    IF ~_is_safe_callback_url(s.job.callback_url)
    THEN [s EXCEPT !.pc = "u_get", !.upd = [success |-> FALSE, error |-> ERR_BLOCKED]]
    ELSE [s EXCEPT !.pc = "d_post", !.attempt = 0, !.last_error = None,
                   !.payload = CallbackPayload(s.job.request_id, result)]

\* mutant: the retry bound is off by one (one attempt too many)
AfterIncrement_OneMore(s, jitter) ==
    IF s.attempt <= callback_max_retries
    THEN [s EXCEPT !.pc = "d_sleep", !.fresh = NoRecord,
                   !.delay = BackoffDelay(s.attempt, jitter)]
    ELSE [s EXCEPT !.pc = "u_get", !.fresh = NoRecord,
                   !.upd = [success |-> FALSE,
                            error |-> MaxRetriesExceeded(s.last_error)]]

\* mutant: the dispatcher also sleeps after the final attempt
AfterIncrement_SleepsAtEnd(s, jitter) ==
    IF s.attempt < callback_max_retries
    THEN [s EXCEPT !.pc = "d_sleep", !.fresh = NoRecord,
                   !.delay = BackoffDelay(s.attempt, jitter)]
    ELSE [s EXCEPT !.pc = "d_sleep", !.fresh = NoRecord,
                   !.delay = BackoffDelay(s.attempt, jitter),
                   !.upd = [success |-> FALSE,
                            error |-> MaxRetriesExceeded(s.last_error)]]

\* _deliver_callback, lines 243-258: after the increment of one failed
\* attempt; jitter is the factor drawn for the delay, in thousandths
AfterIncrement(s, jitter) ==
    IF s.attempt < callback_max_retries
    THEN [s EXCEPT !.pc = "d_sleep", !.fresh = NoRecord,
                   !.delay = BackoffDelay(s.attempt, jitter)]
    ELSE [s EXCEPT !.pc = "u_get", !.fresh = NoRecord,
                   !.upd = [success |-> FALSE,
                            error |-> MaxRetriesExceeded(s.last_error)]]

\* mutant: get hands out the head and empties the queue
dequeue_Drop(q) == [job |-> Head(q), queue |-> <<>>]

\* mutant: get hands out the head and leaves it in the queue
dequeue_Peek(q) == [job |-> Head(q), queue |-> q]

\* mutant: get hands out the job that was put last
dequeue_Last(q) == [job |-> q[Len(q)], queue |-> SubSeq(q, 1, Len(q) - 1)]

\* asyncio.Queue.get on a non-empty queue: the head leaves the queue
dequeue(q) == [job |-> Head(q), queue |-> Tail(q)]

\* _worker, lines 118-129: queue.get returned a job. Idle workers are
\* interchangeable: the job goes to the one with the lowest index
WorkerGet(w) ==
    /\ Runs(w)
    /\ wk[w].pc = "idle"
    /\ \A v \in Workers : v < w => ~(Runs(v) /\ wk[v].pc = "idle")
    /\ queue # <<>>
    /\ queue' = dequeue(queue).queue
    /\ active' = active + 1
    /\ wk' = [wk EXCEPT ![w] = [IdleWorker EXCEPT !.pc = "p_get", !.job = dequeue(queue).job]]
    /\ hist' = [hist EXCEPT ![dequeue(queue).job.request_id].taken = TRUE,
                            ![dequeue(queue).job.request_id].ahead = 0,
                            ![dequeue(queue).job.request_id].cold = FALSE]
    /\ UNCHANGED <<db, req, posts, nfaults, poolVars>>

\* _worker, lines 126-127: wait_for timed out on an empty queue
WorkerTimeout(w) ==
    /\ Runs(w)
    /\ wk[w].pc = "idle"
    /\ queue = <<>>
    /\ UNCHANGED vars

\* _process_request, line 148 (outside the try)
ProcGet(w) ==
    LET s == wk[w]  r == s.job.request_id  record == get_request(r) IN
    /\ Runs(w)
    /\ s.pc = "p_get"
    /\ \/ /\ Step(w, IF Exists(record)
                     THEN [s EXCEPT !.pc = "p_save_processing",
                                    !.record = [record EXCEPT !.status = PROCESSING]]
                     ELSE [s EXCEPT !.pc = "p_compute", !.record = record])
          /\ NoFault
       \/ /\ Fault(r)
          /\ Step(w, IdleWorker)
    /\ UNCHANGED <<queue, db, req, posts, poolVars>>

\* _process_request, line 151 (outside the try)
ProcSaveProcessing(w) ==
    LET s == wk[w]  r == s.job.request_id IN
    /\ Runs(w)
    /\ s.pc = "p_save_processing"
    /\ \/ /\ save_request(s.record)
          /\ Step(w, [s EXCEPT !.pc = "p_compute"])
          /\ NoFault
       \/ /\ Fault(r)
          /\ Step(w, IdleWorker)
          /\ UNCHANGED db
    /\ UNCHANGED <<queue, req, posts, poolVars>>

\* mutant: the result is not attached to the record
MarkPending_NoResult(record, result) ==
    [record EXCEPT !.status = CALLBACK_PENDING, !.completed = TRUE]

\* mutant: the worker marks the record COMPLETED
MarkPending_Completed(record, result) ==
    [record EXCEPT !.status = COMPLETED, !.result = result, !.completed = TRUE]

\* mutant: the status is not moved to CALLBACK_PENDING
MarkPending_KeepsStatus(record, result) ==
    [record EXCEPT !.result = result, !.completed = TRUE]

\* _process_request, lines 163-165: the record after the executor returned
MarkPending(record, result) ==
    [record EXCEPT !.status = CALLBACK_PENDING, !.result = result, !.completed = TRUE]

\* _process_request, lines 155-165: the executor returns or raises
ProcCompute(w) ==
    LET s == wk[w]  r == s.job.request_id IN
    /\ Runs(w)
    /\ s.pc = "p_compute"
    /\ \/ /\ Step(w, IF Exists(s.record)
                     THEN [s EXCEPT !.pc = "p_save_pending",
                                    !.record = MarkPending(s.record,
                                                    compute_work_async(r, PayloadOf(r)))]
                     ELSE EnterDeliver(s, compute_work_async(r, PayloadOf(r))))
          /\ UNCHANGED hist
       \/ /\ Step(w, Handler(s, ERR_EXECUTOR))
          /\ hist' = [hist EXCEPT ![r].execRaised = TRUE]
    /\ UNCHANGED <<queue, db, req, posts, nfaults, poolVars>>

\* _process_request, lines 166-169: save CALLBACK_PENDING, enter the dispatcher
ProcSavePending(w) ==
    LET s == wk[w]  r == s.job.request_id IN
    /\ Runs(w)
    /\ s.pc = "p_save_pending"
    /\ \/ /\ save_request(s.record)
          /\ Step(w, EnterDeliver(s, s.record.result))
          /\ NoFault
       \/ /\ Fault(r)
          /\ Step(w, Handler(s, ERR_STORE))
          /\ UNCHANGED db
    /\ UNCHANGED <<queue, req, posts, poolVars>>

\* mutant: a 2xx response does not return, it is counted like a failure
OnResponse_NoReturn(s, status_code) ==
    [s EXCEPT !.pc = "i_get", !.last_error = HttpError(status_code)]

\* _deliver_callback, lines 218-227: a response arrived
OnResponse(s, status_code) ==
    IF 200 <= status_code /\ status_code < 300
    THEN [s EXCEPT !.pc = "u_get", !.upd = [success |-> TRUE, error |-> None]]
    ELSE [s EXCEPT !.pc = "i_get", !.last_error = HttpError(status_code)]

\* _deliver_callback, lines 229-238: the POST timed out or failed in transport
OnPostError(s, e) == [s EXCEPT !.pc = "i_get", !.last_error = e]

\* whether the validator, asked when the POST of this attempt is issued,
\* would reject the URL. The first POST is issued in the event-loop step
\* that validated the URL (lines 187-208 hold no await); a retry is issued
\* after the backoff sleep, with no further validation
UnsafeAtPost(s) == s.attempt > 0 /\ ~_is_safe_callback_url(s.job.callback_url)

\* mutant: the attempt header counts from zero
PostRequest_ZeroBased(s) ==
    [x_request_id |-> s.job.request_id, x_attempt |-> ToString(s.attempt),
     json |-> s.payload]

\* _deliver_callback, lines 208-216: the request that is POSTed
PostRequest(s) ==
    [x_request_id |-> s.job.request_id, x_attempt |-> ToString(s.attempt + 1),
     json |-> s.payload]

\* _deliver_callback, lines 208-238: one POST and its outcome
DeliverPost(w) ==
    LET s == wk[w]  r == s.job.request_id IN
    /\ Runs(w)
    /\ s.pc = "d_post"
    /\ posts' = [posts EXCEPT ![r] = @ + 1]
    /\ \/ \E status_code \in StatusCodes :
            /\ Step(w, OnResponse(s, status_code))
            /\ hist' = [hist EXCEPT ![r].got2xx = @ \/ status_code \in 200..299,
                                    ![r].unsafe = @ \/ UnsafeAtPost(s),
                                    ![r].sent = Append(@, PostRequest(s))]
       \/ /\ \E e \in TransportErrors : Step(w, OnPostError(s, e))
          /\ hist' = [hist EXCEPT ![r].unsafe = @ \/ UnsafeAtPost(s),
                                  ![r].sent = Append(@, PostRequest(s))]
    /\ UNCHANGED <<queue, db, req, nfaults, poolVars>>

\* _deliver_callback, line 208: post raises something that is neither
\* httpx.TimeoutException nor httpx.RequestError (httpx.InvalidURL, ...)
DeliverPostRaises(w) ==
    LET s == wk[w]  r == s.job.request_id IN
    /\ Runs(w)
    /\ s.pc = "d_post"
    /\ Fault(r)
    /\ Step(w, Handler(s, ERR_POST))
    /\ UNCHANGED <<queue, db, req, posts, poolVars>>

\* mutant: the increment writes the record back without its result
Incremented_DropsResult(record, error) ==
    [record EXCEPT !.callback_attempts = @ + 1, !.callback_last_error = error,
                   !.result = NoResult]

\* mutant: the failed attempt is recorded with its error but not counted
Incremented_NotCounted(record, error) == [record EXCEPT !.callback_last_error = error]

\* _increment_callback_attempt, lines 318-319
Incremented(record, error) ==
    [record EXCEPT !.callback_attempts = @ + 1, !.callback_last_error = error]

\* _increment_callback_attempt, line 316
IncGet(w) ==
    LET s == wk[w]  r == s.job.request_id  record == get_request(r) IN
    /\ Runs(w)
    /\ s.pc = "i_get"
    /\ \/ /\ \E jitter \in Jitter :
                Step(w, IF Exists(record)
                        THEN [s EXCEPT !.pc = "i_save",
                                       !.fresh = Incremented(record, s.last_error)]
                        ELSE AfterIncrement(s, jitter))
          /\ NoFault
       \/ /\ Fault(r)
          /\ Step(w, Handler(s, ERR_STORE))
    /\ UNCHANGED <<queue, db, req, posts, poolVars>>

\* _increment_callback_attempt, line 320, then lines 243-258
IncSave(w) ==
    LET s == wk[w]  r == s.job.request_id IN
    /\ Runs(w)
    /\ s.pc = "i_save"
    /\ \/ /\ save_request(s.fresh)
          /\ \E jitter \in Jitter : Step(w, AfterIncrement(s, jitter))
          /\ NoFault
       \/ /\ Fault(r)
          /\ Step(w, Handler(s, ERR_STORE))
          /\ UNCHANGED db
    /\ UNCHANGED <<queue, req, posts, poolVars>>

\* _deliver_callback, line 250: the backoff sleep is over, next attempt
DeliverSleep(w) ==
    LET s == wk[w]  r == s.job.request_id IN
    /\ Runs(w)
    /\ s.pc = "d_sleep"
    /\ Step(w, [s EXCEPT !.pc = "d_post", !.attempt = @ + 1, !.delay = 0])
    /\ hist' = [hist EXCEPT ![r].sleeps = @ + 1]
    /\ UNCHANGED <<queue, db, req, posts, nfaults, poolVars>>

\* mutant: the success branch lacks its return and falls into the
\* bookkeeping of a failed attempt
AfterUpdate_FallsThrough(s) ==
    IF s.upd.success
    THEN [s EXCEPT !.pc = "i_get", !.fresh = NoRecord, !.upd = NoUpd]
    ELSE IdleWorker

\* mutant: the dispatcher does not return, it updates the status again
AfterUpdate_Again(s) == [s EXCEPT !.pc = "u_get", !.fresh = NoRecord]

\* _deliver_callback, lines 194, 222 and 258: after _update_callback_status
\* the dispatcher returns, and so does _process_request
AfterUpdate(s) == IdleWorker

\* mutant: a failed delivery puts the record back to PENDING
Updated_BackToPending(record, upd) ==
    [record EXCEPT !.status = IF upd.success THEN CALLBACK_SUCCESS ELSE PENDING,
                   !.callback_last_error = IF upd.error # None THEN upd.error ELSE @]

\* mutant: the status is updated, the error text is dropped
Updated_NoError(record, upd) ==
    [record EXCEPT !.status = IF upd.success THEN CALLBACK_SUCCESS ELSE CALLBACK_FAILED]

\* _update_callback_status, lines 302-307
Updated(record, upd) ==
    [record EXCEPT !.status = IF upd.success THEN CALLBACK_SUCCESS ELSE CALLBACK_FAILED,
                   !.callback_last_error = IF upd.error # None THEN upd.error ELSE @]

\* _update_callback_status, line 300
UpdGet(w) ==
    LET s == wk[w]  r == s.job.request_id  record == get_request(r) IN
    /\ Runs(w)
    /\ s.pc = "u_get"
    /\ \/ /\ Step(w, IF Exists(record)
                     THEN [s EXCEPT !.pc = "u_save", !.fresh = Updated(record, s.upd)]
                     ELSE AfterUpdate(s))
          /\ NoFault
       \/ /\ Fault(r)
          /\ Step(w, Handler(s, ERR_STORE))
    /\ UNCHANGED <<queue, db, req, posts, poolVars>>

\* _update_callback_status, line 308; the dispatcher and the job return
UpdSave(w) ==
    LET s == wk[w]  r == s.job.request_id IN
    /\ Runs(w)
    /\ s.pc = "u_save"
    /\ \/ /\ save_request(s.fresh)
          /\ Step(w, AfterUpdate(s))
          /\ NoFault
       \/ /\ Fault(r)
          /\ Step(w, Handler(s, ERR_STORE))
          /\ UNCHANGED db
    /\ UNCHANGED <<queue, req, posts, poolVars>>

\* _process_request, line 176: the save of the except clause; if it
\* raises, _worker's except Exception logs it and the loop goes on
HandlerSave(w) ==
    LET s == wk[w]  r == s.job.request_id IN
    /\ Runs(w)
    /\ s.pc = "h_save"
    /\ \/ /\ save_request(s.record)
          /\ NoFault
       \/ /\ Fault(r)
          /\ UNCHANGED db
    /\ Step(w, IdleWorker)
    /\ UNCHANGED <<queue, req, posts, poolVars>>

\* the record a worker is writing while it waits in save_request
SaveStates == {"p_save_processing", "p_save_pending", "i_save", "u_save", "h_save"}
InFlight(s) == IF s.pc \in {"i_save", "u_save"} THEN s.fresh ELSE s.record

\* mutant: the cancellation is caught by the except clause of
\* _process_request, which records a failure
WorkerCancelled_Fails(w) ==
    /\ w \in cancelled
    /\ cancelled' = cancelled \ {w}
    /\ IF InJob(wk[w]) /\ Exists(wk[w].record)
       THEN save_request([wk[w].record EXCEPT !.status = CALLBACK_FAILED,
                                               !.callback_last_error = ERR_EXECUTOR])
       ELSE UNCHANGED db
    /\ wk' = [wk EXCEPT ![w] = [IdleWorker EXCEPT !.pc = "exited"]]
    /\ active' = IF InJob(wk[w]) THEN active - 1 ELSE active
    /\ hist' = IF InJob(wk[w])
               THEN [hist EXCEPT ![wk[w].job.request_id].abandoned = TRUE]
               ELSE hist
    /\ UNCHANGED <<async_queue_max_size, dns, body, queue, running, http_client, stopping,
                   req, workers_len, posts, nfaults>>

\* _worker, lines 132-137: CancelledError is thrown into the task at the
\* await it is suspended in; finally runs if it was inside a job. A save
\* the task was waiting for is lost if its INSERT had not been committed
\* and lands if the commit was already handed to the store
WorkerCancelled(w) ==
    /\ w \in cancelled
    /\ cancelled' = cancelled \ {w}
    /\ \/ UNCHANGED db
       \/ /\ wk[w].pc \in SaveStates
          /\ save_request(InFlight(wk[w]))
    /\ wk' = [wk EXCEPT ![w] = [IdleWorker EXCEPT !.pc = "exited"]]
    /\ active' = IF InJob(wk[w]) THEN active - 1 ELSE active
    /\ hist' = IF InJob(wk[w])
               THEN [hist EXCEPT ![wk[w].job.request_id].abandoned = TRUE]
               ELSE hist
    /\ UNCHANGED <<async_queue_max_size, dns, body, queue, running, http_client, stopping,
                   req, workers_len, posts, nfaults>>

Next ==
    \/ \E r \in Rids : AsyncSave(r)
    \/ \E r \in Rids : AsyncEnqueue(r)
    \/ \E r \in Rids : AsyncReject(r)
    \/ \E r \in Rids : SyncSave(r)
    \/ \E r \in Rids : SyncCompute(r)
    \/ \E r \in Rids : SyncSaveCompleted(r)
    \/ \E r \in Rids : SyncSaveFailed(r)
    \/ start
    \/ stop_begin
    \/ stop_finish
    \/ \E w \in Workers : WorkerGet(w)
    \/ \E w \in Workers : WorkerTimeout(w)
    \/ \E w \in Workers : ProcGet(w)
    \/ \E w \in Workers : ProcSaveProcessing(w)
    \/ \E w \in Workers : ProcCompute(w)
    \/ \E w \in Workers : ProcSavePending(w)
    \/ \E w \in Workers : DeliverPost(w)
    \/ \E w \in Workers : DeliverPostRaises(w)
    \/ \E w \in Workers : IncGet(w)
    \/ \E w \in Workers : IncSave(w)
    \/ \E w \in Workers : DeliverSleep(w)
    \/ \E w \in Workers : UpdGet(w)
    \/ \E w \in Workers : UpdSave(w)
    \/ \E w \in Workers : HandlerSave(w)
    \/ \E w \in Workers : WorkerCancelled(w)

Spec == Init /\ [][Next]_vars

\* ------------------------------------------- the pool that is not stopped
\* one step of worker w's task other than a timeout of its queue.get
WorkerNext(w) ==
    \/ WorkerGet(w)
    \/ ProcGet(w)
    \/ ProcSaveProcessing(w)
    \/ ProcCompute(w)
    \/ ProcSavePending(w)
    \/ DeliverPost(w)
    \/ IncGet(w)
    \/ IncSave(w)
    \/ DeliverSleep(w)
    \/ UpdGet(w)
    \/ UpdSave(w)
    \/ HandlerSave(w)

\* lifespan never reaches its shutdown half: stop() is not called
LiveNext ==
    \/ \E r \in Rids : AsyncSave(r)
    \/ \E r \in Rids : AsyncEnqueue(r)
    \/ \E r \in Rids : AsyncReject(r)
    \/ \E r \in Rids : SyncSave(r)
    \/ \E r \in Rids : SyncCompute(r)
    \/ \E r \in Rids : SyncSaveCompleted(r)
    \/ \E r \in Rids : SyncSaveFailed(r)
    \/ start
    \/ \E w \in Workers : WorkerTimeout(w)
    \/ \E w \in Workers : DeliverPostRaises(w)
    \/ \E w \in Workers : WorkerNext(w)

\* the event loop runs every task that is ready, and every await of a
\* worker returns: the store answers, the executor is a bounded loop, the
\* POST has a timeout, the sleep is finite
LiveSpec == Init /\ [][LiveNext]_vars /\ \A w \in Workers : WF_vars(WorkerNext(w))

\* ------------------------------------- one job, any callback URL
\* a single async request whose callback_url is any of ValidatorUrls,
\* processed by the pool
ValidatorNext ==
    \/ \E u \in ValidatorUrls : AsyncSaveUrl(1, u)
    \/ AsyncEnqueue(1)
    \/ start
    \/ \E w \in Workers : WorkerTimeout(w)
    \/ \E w \in Workers : DeliverPostRaises(w)
    \/ \E w \in Workers : WorkerNext(w)

ValidatorSpec == Init /\ [][ValidatorNext]_vars

\* ------------------------------------- one job, a name that is re-pointed
\* the address record of RebindHost is changed
DnsChange ==
    /\ \E n \in RebindNets \ {dns} : dns' = n
    /\ UNCHANGED <<async_queue_max_size, body, queue, db, running, http_client, active,
                   stopping, cancelled, req, wk, workers_len, posts, hist, nfaults>>

\* a single async request with callback_url RebindUrl, processed by the pool
\* while the name's address record changes at any moment
RebindNext ==
    \/ AsyncSaveUrl(1, RebindUrl)
    \/ AsyncEnqueue(1)
    \/ start
    \/ DnsChange
    \/ \E w \in Workers : WorkerTimeout(w)
    \/ \E w \in Workers : WorkerNext(w)

RebindSpec == Init /\ [][RebindNext]_vars

\* ------------------------------------- two requests, any bodies
\* a sync request followed by an async request, each with any body a client
\* can send
RequestInit ==
    /\ body \in [Rids -> Bodies]
    /\ InitState

RequestNext ==
    \/ \E r \in Rids : Unprocessable(r)
    \/ SyncSave(1)
    \/ SyncCompute(1)
    \/ SyncSaveCompleted(1)
    \/ SyncSaveFailed(1)
    \/ AsyncRequest(2)
    \/ AsyncEnqueue(2)
    \/ start
    \/ \E w \in Workers : WorkerTimeout(w)
    \/ \E w \in Workers : WorkerNext(w)

RequestSpec == RequestInit /\ [][RequestNext]_vars

\* ================================================================ claims

\* C1: enqueue never blocks. Called on a queue that holds capacity jobs it
\* returns false and leaves the queue as it was; otherwise it appends the
\* job at the tail and returns true. So if more enqueue calls than the
\* capacity were made before any worker took a job, one returned false.
EnqueueCalls == {r \in Rids : req[r].success # "unset"}
C1_Step ==
    \A r \in Rids :
        (req[r].pc = "a_enqueue" /\ req'[r].pc # "a_enqueue") =>
            IF Len(queue) >= async_queue_max_size
            THEN queue' = queue /\ req'[r].success = "False"
            ELSE /\ queue' = Append(queue, [request_id |-> r,
                                            callback_url |-> req[r].record.callback_url])
                 /\ req'[r].success = "True"
C1_State ==
    /\ \A r \in Rids : req[r].pc = "a_enqueue" => ENABLED AsyncEnqueue(r)
    /\ ((\A r \in Rids : ~hist[r].taken)
            /\ Cardinality(EnqueueCalls) > async_queue_max_size)
        => \E r \in Rids : req[r].success = "False"
C1_EnqueueBackpressure == [][C1_Step]_vars /\ []C1_State
C1_Witness ==
    /\ \A r \in Rids : ~hist[r].taken
    /\ Cardinality(EnqueueCalls) > async_queue_max_size
    /\ Len(queue) = async_queue_max_size
    /\ \E r \in Rids : req[r].success = "False"

\* ------------------------------------------------ vocabulary of the claims
Holder(w, r) == InJob(wk[w]) /\ wk[w].job.request_id = r
Holders(r) == {w \in Workers : Holder(w, r)}
\* the worker that took r's job has returned from _process_request
Finished(r) == hist[r].taken /\ ~hist[r].abandoned /\ Holders(r) = {}
Async(r) == db[r].mode = "async"
SafeUrl(r) == _is_safe_callback_url(db[r].callback_url)
InRetryLoop(s) == s.pc \in {"d_post", "i_get", "i_save", "d_sleep"}
Terminal == {CALLBACK_SUCCESS, CALLBACK_FAILED, COMPLETED}

\* C2: with every delivery attempt failing the dispatcher issues exactly
\* callback_max_retries + 1 POSTs and increments callback_attempts exactly
\* that many times; neither count ever exceeds callback_max_retries + 1,
\* and each failed attempt is counted once.
C2_ExactlyNPlusOneAttempts ==
    \A r \in Rids :
        /\ posts[r] <= callback_max_retries + 1
        /\ db[r].callback_attempts <= callback_max_retries + 1
        /\ ~hist[r].fault =>
              /\ db[r].callback_attempts <= posts[r]
              /\ posts[r] <= db[r].callback_attempts + 1
        /\ (Finished(r) /\ SafeUrl(r) /\ ~hist[r].got2xx /\ ~hist[r].execRaised
                /\ ~hist[r].fault)
            => /\ posts[r] = callback_max_retries + 1
               /\ db[r].callback_attempts = callback_max_retries + 1
C2_Witness ==
    \E r \in Rids :
        /\ Finished(r) /\ ~hist[r].got2xx /\ ~hist[r].fault
        /\ posts[r] = callback_max_retries + 1
        /\ db[r].callback_attempts = callback_max_retries + 1
        /\ db[r].status = CALLBACK_FAILED

\* C3: once a POST for a request was answered 2xx the retry loop is over:
\* the worker is in the status update (or done), never again at a POST, an
\* increment or a sleep; the successful attempt is not counted; and the
\* record ends in CALLBACK_SUCCESS.
C3_SuccessEndsLoop ==
    \A r \in Rids :
        hist[r].got2xx =>
            /\ \A w \in Holders(r) :
                /\ ~InRetryLoop(wk[w])
                /\ wk[w].pc \in {"u_get", "u_save"} => wk[w].upd.success
            /\ ~hist[r].fault => db[r].callback_attempts = posts[r] - 1
            /\ (Finished(r) /\ ~hist[r].fault) => db[r].status = CALLBACK_SUCCESS
C3_Witness ==
    \E r \in Rids :
        /\ hist[r].got2xx /\ Finished(r)
        /\ db[r].status = CALLBACK_SUCCESS
        /\ posts[r] = 3 /\ db[r].callback_attempts = 2

\* C4: for an unsafe callback URL the dispatcher never issues a POST, never
\* enters the retry loop, never counts an attempt, and the record ends in
\* CALLBACK_FAILED with the fixed policy error.
C4_UnsafeUrlBlocked ==
    \A r \in Rids :
        (Async(r) /\ ~SafeUrl(r)) =>
            /\ posts[r] = 0
            /\ db[r].callback_attempts = 0
            /\ \A w \in Holders(r) : ~InRetryLoop(wk[w])
            /\ (Finished(r) /\ ~hist[r].fault /\ ~hist[r].execRaised)
                => /\ db[r].status = CALLBACK_FAILED
                   /\ db[r].callback_last_error = ERR_BLOCKED
C4_Witness ==
    \E r \in Rids :
        /\ Async(r) /\ db[r].callback_url.host = "127.0.0.1"
        /\ Finished(r) /\ ~hist[r].fault
        /\ db[r].status = CALLBACK_FAILED
        /\ db[r].callback_last_error = ERR_BLOCKED
        /\ posts[r] = 0

\* C5 as stated: every record with a callback_url that moves to
\* CALLBACK_SUCCESS or CALLBACK_FAILED was CALLBACK_PENDING immediately before.
StatusChanges(r) == db'[r].status # db[r].status
C5_Original_Step ==
    \A r \in Rids :
        (StatusChanges(r) /\ db'[r].callback_url # NoUrl
            /\ db'[r].status \in {CALLBACK_SUCCESS, CALLBACK_FAILED})
        => db[r].status = CALLBACK_PENDING
C5_Original == [][C5_Original_Step]_vars

\* C5 (amended): a record with a callback_url moves to CALLBACK_SUCCESS only
\* from CALLBACK_PENDING. It moves to CALLBACK_FAILED from CALLBACK_PENDING,
\* or directly from PROCESSING by the save of the worker's except clause,
\* or directly from PENDING by the async endpoint's queue-full rejection.
C5_Step ==
    \A r \in Rids :
        (StatusChanges(r) /\ db'[r].callback_url # NoUrl) =>
            /\ db'[r].status = CALLBACK_SUCCESS => db[r].status = CALLBACK_PENDING
            /\ db'[r].status = CALLBACK_FAILED =>
                \/ db[r].status = CALLBACK_PENDING
                \/ /\ db[r].status = PROCESSING
                   /\ \E w \in Holders(r) : wk[w].pc = "h_save"
                \/ /\ db[r].status = PENDING
                   /\ req[r].pc = "a_reject"
C5_CallbackPendingBeforeSuccess == [][C5_Step]_vars
C5_Witness ==
    /\ \E r \in Rids : /\ db[r].status = CALLBACK_FAILED
                       /\ req[r].pc = "rejected"
                       /\ db[r].callback_url # NoUrl
    /\ \E r \in Rids : db[r].status = CALLBACK_SUCCESS

\* C6 as stated: the stored callback_attempts of a request never decreases
\* and no single store write raises it by more than one.
C6_Original_Step ==
    \A r \in Rids :
        /\ db'[r].callback_attempts >= db[r].callback_attempts
        /\ db'[r].callback_attempts <= db[r].callback_attempts + 1
C6_Original == [][C6_Original_Step]_vars

\* C7: when the executor raises for an async job the worker is in its
\* except clause with the record marked CALLBACK_FAILED and the error text,
\* no POST is issued, callback_attempts stays 0, and the record is saved so.
C7_ExecutorFailureRecorded ==
    \A r \in Rids :
        (Async(r) /\ hist[r].execRaised) =>
            /\ posts[r] = 0
            /\ db[r].callback_attempts = 0
            /\ \A w \in Holders(r) :
                /\ wk[w].pc = "h_save"
                /\ wk[w].record.status = CALLBACK_FAILED
                /\ wk[w].record.callback_last_error = ERR_EXECUTOR
            /\ (Finished(r) /\ ~hist[r].fault)
                => /\ db[r].status = CALLBACK_FAILED
                   /\ db[r].callback_last_error = ERR_EXECUTOR
C7_Witness ==
    \E r \in Rids :
        /\ Async(r) /\ hist[r].execRaised /\ Finished(r)
        /\ db[r].status = CALLBACK_FAILED
        /\ db[r].callback_last_error = ERR_EXECUTOR
        /\ posts[r] = 0

\* C8 as stated: while the pool runs every worker loop is alive, and every
\* failure met while a job was processed (executor, store, delivery) ends
\* recorded on the job's record.
DeliveryFailed(r) ==
    SafeUrl(r) /\ ~hist[r].got2xx /\ ~hist[r].execRaised /\ ~hist[r].fault
C8_Original ==
    /\ running => \A w \in Workers : wk[w].pc \notin {"none", "exited"}
    /\ \A r \in Rids :
        (Finished(r) /\ (hist[r].execRaised \/ hist[r].fault \/ DeliveryFailed(r)))
        => /\ db[r].status = CALLBACK_FAILED
           /\ db[r].callback_last_error # None

\* C9: a request has at most one owner at a time: its endpoint handler, or
\* its place in the queue, or one worker. So at most one delivery loop runs
\* for it, and the copy a worker read for a write is still the stored record
\* when it writes it back.
EndpointHolds(r) == req[r].pc \in {"a_enqueue", "a_reject", "s_compute",
                                  "s_save_completed", "s_save_failed"}
InQueue(r) == {i \in 1..Len(queue) : queue[i].request_id = r}
Owners(r) ==
    Cardinality(Holders(r)) + Cardinality(InQueue(r))
        + (IF EndpointHolds(r) THEN 1 ELSE 0)
C9_SingleOwner ==
    \A r \in Rids :
        /\ Owners(r) <= 1
        /\ \A w \in Holders(r) :
            /\ wk[w].pc = "i_save" =>
                wk[w].fresh = [db[r] EXCEPT !.callback_attempts = @ + 1,
                                            !.callback_last_error = wk[w].last_error]
            /\ wk[w].pc = "u_save" =>
                wk[w].fresh.callback_attempts = db[r].callback_attempts
                    /\ wk[w].fresh.result = db[r].result
C9_Witness ==
    \E r1, r2 \in Rids :
        /\ r1 # r2
        /\ \E w1, w2 \in Workers :
            /\ w1 # w2
            /\ Holder(w1, r1) /\ wk[w1].pc = "i_save"
            /\ Holder(w2, r2) /\ wk[w2].pc = "i_save"

\* C10: CALLBACK_SUCCESS, CALLBACK_FAILED and COMPLETED are terminal: once
\* stored, no step of an endpoint, a worker or the dispatcher changes the
\* stored status.
C10_Step == \A r \in Rids : db[r].status \in Terminal => db'[r].status = db[r].status
C10_TerminalIsFinal == [][C10_Step]_vars
C10_Witness ==
    \E r1, r2 \in Rids :
        /\ db[r1].status = CALLBACK_SUCCESS
        /\ db[r2].status = CALLBACK_FAILED
        /\ Finished(r1) /\ Finished(r2)

Succeeding(s) == s.pc \in {"u_get", "u_save"} /\ s.upd.success
C12_SuccessAfterKFailures ==
    \A r \in Rids :
        ~hist[r].fault =>
            /\ \A w \in Holders(r) :
                Succeeding(wk[w]) =>
                    /\ wk[w].attempt <= callback_max_retries
                    /\ posts[r] = wk[w].attempt + 1
                    /\ db[r].callback_attempts = wk[w].attempt
                    /\ wk[w].pc = "u_save" =>
                        /\ wk[w].fresh.status = CALLBACK_SUCCESS
                        /\ wk[w].fresh.callback_attempts = wk[w].attempt
            /\ (Finished(r) /\ hist[r].got2xx) =>
                /\ db[r].status = CALLBACK_SUCCESS
                /\ db[r].callback_attempts = hist[r].sleeps
                /\ posts[r] = hist[r].sleeps + 1
C12_Witness ==
    \E r \in Rids :
        /\ Finished(r) /\ hist[r].got2xx /\ ~hist[r].fault
        /\ db[r].status = CALLBACK_SUCCESS
        /\ db[r].callback_attempts = 3 /\ posts[r] = 4
        /\ db[r].callback_last_error = HttpError(500)

\* C13: when the last of the callback_max_retries + 1 attempts has failed
\* the dispatcher writes CALLBACK_FAILED with "Max retries exceeded: <e>",
\* <e> being the error of that last attempt (HTTP <code>, Timeout or the
\* transport error text); at that point the last attempt is already counted
\* and the record was still CALLBACK_PENDING; so a delivered job's record
\* is CALLBACK_FAILED only with all callback_max_retries + 1 attempts counted.
AttemptErrors ==
    {HttpError(c) : c \in {c \in StatusCodes : ~(200 <= c /\ c < 300)}} \cup TransportErrors
GivingUp(s) == s.pc \in {"u_get", "u_save"} /\ ~s.upd.success /\ s.upd.error # ERR_BLOCKED
C13_ExhaustedRetriesRecorded ==
    \A r \in Rids :
        /\ \A w \in Holders(r) :
            GivingUp(wk[w]) =>
                /\ wk[w].attempt = callback_max_retries
                /\ wk[w].last_error \in AttemptErrors
                /\ wk[w].upd.error = MaxRetriesExceeded(wk[w].last_error)
                /\ ~hist[r].fault =>
                    /\ db[r].status = CALLBACK_PENDING
                    /\ db[r].callback_attempts = callback_max_retries + 1
                    /\ db[r].callback_last_error = wk[w].last_error
                /\ wk[w].pc = "u_save" =>
                    /\ wk[w].fresh.status = CALLBACK_FAILED
                    /\ wk[w].fresh.callback_last_error = wk[w].upd.error
        /\ (Async(r) /\ SafeUrl(r) /\ req[r].success = "True"
                /\ ~hist[r].execRaised /\ ~hist[r].fault) =>
            /\ db[r].status = CALLBACK_FAILED =>
                /\ db[r].callback_attempts = callback_max_retries + 1
                /\ db[r].callback_last_error \in {MaxRetriesExceeded(e) : e \in AttemptErrors}
            /\ (Finished(r) /\ ~hist[r].got2xx) => db[r].status = CALLBACK_FAILED
C13_Witness ==
    \E r \in Rids :
        /\ Finished(r) /\ ~hist[r].fault
        /\ db[r].status = CALLBACK_FAILED
        /\ db[r].callback_attempts = callback_max_retries + 1
        /\ db[r].callback_last_error = MaxRetriesExceeded("Timeout")

\* C14: the dispatcher sleeps only after a failed attempt with index a <
\* callback_max_retries, once, for a delay in [0.5, 1.5) times
\* min(base_delay * 2^a, max_delay); it does not sleep after the final
\* failed attempt nor after a successful one, so a delivery has slept once
\* per earlier attempt and a fully failing one exactly callback_max_retries
\* times.
Cap(a) == Min(callback_retry_base_delay * (2 ^ a), callback_retry_max_delay)
InJitterRange(delay, cap) == 500 * cap <= 1000 * delay /\ 1000 * delay < 1500 * cap
C14_BackoffSleeps ==
    \A r \in Rids :
        /\ hist[r].sleeps <= callback_max_retries
        /\ \A w \in Holders(r) :
            /\ wk[w].pc = "d_sleep" =>
                /\ wk[w].attempt < callback_max_retries
                /\ posts[r] = wk[w].attempt + 1
                /\ ~hist[r].got2xx
                /\ InJitterRange(wk[w].delay, Cap(wk[w].attempt))
            /\ wk[w].pc # "d_sleep" => wk[w].delay = 0
            /\ (InRetryLoop(wk[w]) \/ Succeeding(wk[w]) \/ GivingUp(wk[w]))
                => hist[r].sleeps = wk[w].attempt
        /\ (Finished(r) /\ ~hist[r].fault /\ posts[r] > 0) => hist[r].sleeps = posts[r] - 1
        /\ (Finished(r) /\ Async(r) /\ SafeUrl(r) /\ ~hist[r].got2xx
                /\ ~hist[r].execRaised /\ ~hist[r].fault)
            => hist[r].sleeps = callback_max_retries
C14_Witness ==
    /\ \E r \in Rids : \E w \in Holders(r) :
        /\ wk[w].pc = "d_sleep" /\ wk[w].attempt = 2
        /\ wk[w].delay = 4497
    /\ \E r \in Rids :
        /\ Finished(r) /\ ~hist[r].fault /\ ~hist[r].got2xx
        /\ db[r].status = CALLBACK_FAILED
        /\ hist[r].sleeps = callback_max_retries

\* C15 as stated: the delay slept immediately before the attempt with index
\* k lies in [0.5, 1.5) times min(base_delay * 2^k, max_delay).
C15_Original ==
    \A w \in Workers :
        wk[w].pc = "d_sleep" =>
            LET k == wk[w].attempt + 1 IN InJitterRange(wk[w].delay, Cap(k))

\* C15 (amended): the delay slept immediately before the attempt with index
\* k, 1 <= k <= callback_max_retries, lies in [0.5, 1.5) times
\* min(base_delay * 2^(k-1), max_delay): the exponent is the index of the
\* failed attempt the sleep follows.
C15_DelayBeforeAttempt ==
    \A w \in Workers :
        wk[w].pc = "d_sleep" =>
            LET k == wk[w].attempt + 1 IN
            /\ k \in 1..callback_max_retries
            /\ InJitterRange(wk[w].delay, Cap(k - 1))
C15_Witness ==
    \E w1, w2 \in Workers :
        /\ wk[w1].pc = "d_sleep" /\ wk[w1].attempt = 0 /\ wk[w1].delay = 500
        /\ wk[w2].pc = "d_sleep" /\ wk[w2].attempt = 1 /\ wk[w2].delay = 2998

\* C16: stop() clears the running flag and cancels every worker that is
\* alive; a cancelled worker takes no further step of a job; the HTTP
\* client stays open as long as any worker is alive and is closed only
\* when all have exited; once stop() has returned there is no worker left:
\* nothing is dequeued, written or POSTed by a worker.
Alive(w) == wk[w].pc \notin {"none", "exited"}
Stopped == ~running /\ ~stopping
C16_StopOrder ==
    /\ stopping => /\ ~running
                   /\ http_client
                   /\ \A w \in Workers : Alive(w) => w \in cancelled
    /\ cancelled # {} => stopping
    /\ \A w \in cancelled : ~ENABLED WorkerNext(w) /\ ~ENABLED DeliverPostRaises(w)
    /\ \A w \in Workers : Alive(w) => http_client
    /\ Stopped =>
        /\ ~http_client
        /\ cancelled = {}
        /\ active = 0
        /\ \A w \in Workers :
            /\ wk[w].pc = "none"
            /\ ~ENABLED WorkerNext(w)
            /\ ~ENABLED DeliverPostRaises(w)
            /\ ~ENABLED WorkerCancelled(w)
C16_Witness ==
    /\ Stopped
    /\ \E r \in Rids : hist[r].abandoned /\ posts[r] = 2 /\ db[r].status = CALLBACK_PENDING
    /\ \E r \in Rids : InQueue(r) # {} /\ db[r].status = PENDING

\* C17: the async endpoint has answered 'accepted' exactly when enqueue
\* returned true, and then the job is in the queue or was taken by a
\* worker. When enqueue returned false the job is not in the queue, no
\* worker ever takes it and nothing is POSTed for it; the endpoint saves
\* the record as CALLBACK_FAILED with "Server overloaded - queue full" and
\* answers 503 (500 only if that save raised).
C17_AcceptedIffEnqueued ==
    \A r \in Rids :
        /\ (req[r].pc = "accepted") <=> (req[r].success = "True")
        /\ req[r].success = "True" => Response(r) = 200 /\ (InQueue(r) # {} \/ hist[r].taken)
        /\ Response(r) = 503 => req[r].success = "False"
        /\ req[r].success = "False" =>
            /\ req[r].pc \in {"a_reject", "rejected", "error"}
            /\ Response(r) = 500 => hist[r].fault
            /\ InQueue(r) = {} /\ Holders(r) = {}
            /\ ~hist[r].taken /\ posts[r] = 0
            /\ Response(r) = 503 =>
                /\ db[r].status = CALLBACK_FAILED
                /\ db[r].callback_last_error = ERR_QUEUE_FULL
                /\ db[r].callback_attempts = 0
C17_Witness ==
    \E r1, r2 \in Rids :
        /\ req[r1].success = "True" /\ Response(r1) = 200
        /\ Finished(r1) /\ db[r1].status = CALLBACK_SUCCESS
        /\ req[r2].success = "False" /\ Response(r2) = 503
        /\ db[r2].status = CALLBACK_FAILED
        /\ db[r2].callback_last_error = ERR_QUEUE_FULL

\* requests arrive one at a time and ids are handed out in arrival order:
\* of two accepted jobs the one with the smaller id was enqueued first
EnqueuedBefore(a, b) == a < b /\ req[a].success = "True" /\ req[b].success = "True"

\* C18 as stated: of two accepted jobs A before B, A is dequeued and its
\* record set to PROCESSING before B is dequeued.
C18_Original ==
    \A a, b \in Rids :
        (EnqueuedBefore(a, b) /\ hist[b].taken)
            => hist[a].taken /\ db[a].status # PENDING

\* C18 (amended): the queue is FIFO. Jobs wait in the queue in the order of
\* their successful enqueue calls, and of two accepted jobs A before B, A
\* is handed to a worker before B is: B is never taken while A waits. (The
\* write of PROCESSING for A may come after B was dequeued.)
C18_Fifo ==
    /\ \A i, j \in 1..Len(queue) : i < j => queue[i].request_id < queue[j].request_id
    /\ \A a, b \in Rids :
        EnqueuedBefore(a, b) =>
            /\ hist[b].taken => hist[a].taken
            /\ InQueue(a) # {} => InQueue(b) # {} \/ req[b].pc = "new"
C18_Witness ==
    \E a, b \in Rids :
        /\ EnqueuedBefore(a, b)
        /\ hist[b].ahead = 1
        /\ hist[a].taken /\ ~hist[b].taken
        /\ queue = <<[request_id |-> b, callback_url |-> db[b].callback_url]>>
        /\ \E w \in Workers : Holder(w, a) /\ wk[w].pc = "p_get"

\* C19: in every reachable state the occupancy get_stats reports lies
\* between 0 and the reported capacity, which is the configured maxsize of
\* the queue: the buffer never holds more jobs than its capacity.
C19_QueueWithinCapacity ==
    /\ get_stats.queue_capacity = async_queue_max_size
    /\ get_stats.queue_capacity \in QueueSizes
    /\ get_stats.queue_size = Len(queue)
    /\ 0 <= get_stats.queue_size
    /\ get_stats.queue_size <= get_stats.queue_capacity
C19_Witness ==
    /\ get_stats.queue_capacity = 1
    /\ get_stats.queue_size = 1
    /\ \E a, b \in Rids : hist[a].taken /\ InQueue(b) # {}
    /\ get_stats.active_workers = 1

\* C20: with private-IP blocking enabled the validator judges unsafe every
\* URL whose host resolves to a loopback, link-local, private, reserved or
\* multicast address and every URL whose host is localhost, 127.0.0.1, ::1
\* or 0.0.0.0 in any letter case: nothing is ever POSTed to it and its job
\* ends with the policy error. It judges safe every http/https URL whose
\* host resolves to a public address: its job is never blocked and is POSTed.
BlockedNets == {"loopback", "link_local", "private", "reserved", "multicast"}
LocalNames == {"localhost", "127.0.0.1", "::1", "0.0.0.0"}
C20_ValidatorVerdict ==
    /\ callback_block_private_ips
    /\ \A r \in Rids :
        Async(r) =>
            LET u == db[r].callback_url IN
            /\ (Resolve(u.host) \in BlockedNets \/ Lower(u.host) \in LocalNames) =>
                /\ ~_is_safe_callback_url(u)
                /\ posts[r] = 0
                /\ \A w \in Holders(r) : ~InRetryLoop(wk[w])
                /\ (Finished(r) /\ ~hist[r].fault /\ ~hist[r].execRaised)
                    => /\ db[r].status = CALLBACK_FAILED
                       /\ db[r].callback_last_error = ERR_BLOCKED
            /\ (u.scheme \in {"http", "https"} /\ Resolve(u.host) = "public") =>
                /\ _is_safe_callback_url(u)
                /\ db[r].callback_last_error # ERR_BLOCKED
                /\ \A w \in Holders(r) : wk[w].upd.error # ERR_BLOCKED
                /\ (Finished(r) /\ ~hist[r].fault /\ ~hist[r].execRaised)
                    => posts[r] >= 1
C20_Witness ==
    \E r \in Rids :
        /\ Async(r) /\ Finished(r) /\ ~hist[r].fault
        /\ db[r].callback_url = [scheme |-> "http", host |-> "LocalHost"]
        /\ db[r].callback_last_error = ERR_BLOCKED
        /\ posts[r] = 0

\* C21: the validator is fail-closed. A URL whose scheme is not in the
\* allow-list (whatever its host), a URL that does not parse and a URL whose
\* host does not resolve are judged unsafe: nothing is POSTed, the job ends
\* with the policy error. The validator does not raise: the worker never
\* reaches its except clause because of the URL.
FailClosedCase(u) ==
    \/ u.scheme \notin callback_allowed_schemes
    \/ ~Parses(u)
    \/ Resolve(u.host) = "fail"
C21_FailClosed ==
    \A r \in Rids :
        (Async(r) /\ FailClosedCase(db[r].callback_url)) =>
            /\ ~_is_safe_callback_url(db[r].callback_url)
            /\ posts[r] = 0
            /\ \A w \in Holders(r) :
                /\ ~InRetryLoop(wk[w])
                /\ wk[w].pc = "h_save" => hist[r].execRaised \/ hist[r].fault
                /\ wk[w].pc \in {"u_get", "u_save"} =>
                    wk[w].upd = [success |-> FALSE, error |-> ERR_BLOCKED]
            /\ (Finished(r) /\ ~hist[r].fault /\ ~hist[r].execRaised)
                => /\ db[r].status = CALLBACK_FAILED
                   /\ db[r].callback_last_error = ERR_BLOCKED
C21_Witness ==
    \E r \in Rids :
        /\ Async(r) /\ Finished(r) /\ ~hist[r].fault /\ ~hist[r].execRaised
        /\ db[r].callback_url = [scheme |-> "ftp", host |-> "example.com"]
        /\ db[r].status = CALLBACK_FAILED
        /\ db[r].callback_last_error = ERR_BLOCKED

\* C22: no callback POST, retries included, is sent while the validator
\* would judge its URL unsafe at the time of that attempt.
C22_Original == \A r \in Rids : ~hist[r].unsafe

\* C23: the k-th POST issued for a request carries the request id in
\* X-Request-ID and the text of k in X-Attempt (1, 2, ..., n, no gap, no
\* repeat), and every POST of the request carries the one payload that was
\* built before the first: status "success", the job's result, one timestamp.
Sent(r) == hist[r].sent
C23_HeadersAndPayload ==
    \A r \in Rids :
        /\ Len(Sent(r)) = posts[r]
        /\ \A k \in 1..Len(Sent(r)) :
            /\ Sent(r)[k].x_request_id = r
            /\ Sent(r)[k].x_attempt = ToString(k)
            /\ Sent(r)[k].json = Sent(r)[1].json
            /\ Sent(r)[k].json.request_id = r
            /\ Sent(r)[k].json.status = "success"
            /\ Sent(r)[k].json.result = compute_work_sync(r, PayloadOf(r))
C23_Witness ==
    \E r \in Rids :
        /\ Len(Sent(r)) = callback_max_retries + 1
        /\ Sent(r)[callback_max_retries + 1].x_attempt = "4"
        /\ hist[r].sleeps = callback_max_retries

\* C24: the work computation does not depend on the request id: two
\* requests that carry the same payload (data, iterations) under different
\* ids get the same input_hash and output_hash, whether they were computed
\* by the sync endpoint or by a worker, and the result that is POSTed is
\* the stored one.
HasResult(r) == db[r].result # NoResult
SameWork(x, y) ==
    /\ x.input_hash = y.input_hash
    /\ x.output_hash = y.output_hash
    /\ x.iterations = y.iterations
C24_Deterministic ==
    /\ \A a \in Rids : \A b \in Rids :
            (HasResult(a) /\ HasResult(b) /\ body[a] = body[b])
                => SameWork(db[a].result, db[b].result)
    /\ \A a \in Rids : \A b \in Rids : \A k \in 1..Len(hist[a].sent) :
            (HasResult(b) /\ body[a] = body[b])
                => SameWork(hist[a].sent[k].json.result, db[b].result)
C24_Witness ==
    /\ db[1].mode = "sync" /\ db[2].mode = "async"
    /\ body[1] = body[2]
    /\ HasResult(1) /\ HasResult(2)
    /\ db[1].result.request_id # db[2].result.request_id
    /\ Len(hist[2].sent) >= 1
    /\ db[1].result.output_hash = hist[2].sent[1].json.result.output_hash

\* C28: a request whose body does not pass payload validation (empty or
\* blank data, iterations outside 1..1000000, a callback_url without the
\* http:// or https:// prefix or longer than 2048 characters) is answered
\* 422 and leaves no trace: no record in the store, no job in the queue,
\* nothing for a worker to take.
BadBody(b) == b.data \in {"", "  "} \/ b.iterations < 1 \/ b.iterations > 1000000
BadUrl(u) == u.scheme \notin {"http", "https"} \/ u.host = LongHost
NoTrace(r) ==
    /\ db[r] = NoRecord
    /\ InQueue(r) = {}
    /\ r \notin EnqueueCalls
    /\ ~hist[r].taken
    /\ posts[r] = 0
C28_RejectedChangesNothing ==
    \A r \in Rids :
        /\ Response(r) = 422 => NoTrace(r)
        /\ BadBody(body[r]) => NoTrace(r) /\ (Answered(r) => Response(r) = 422)
        /\ Exists(db[r]) /\ db[r].mode = "async" => ~BadUrl(db[r].callback_url)
C28_Witness ==
    /\ body[1].data = "  " /\ body[1].iterations = 1
    /\ Response(1) = 422 /\ NoTrace(1)
    /\ ~BadBody(body[2]) /\ Response(2) = 422 /\ NoTrace(2)

\* C25: the active-worker count of get_stats is the number of workers that
\* have dequeued a job and have neither finished nor abandoned it: it lies
\* in 0..W, is back at its former value after every job, however the job
\* ended, and is 0 once stop() has returned.
Busy == {w \in Workers : InJob(wk[w])}
C25_ActiveCount ==
    /\ get_stats.active_workers = Cardinality(Busy)
    /\ 0 <= get_stats.active_workers /\ get_stats.active_workers <= async_worker_count
    /\ Stopped => get_stats.active_workers = 0
C25_Witness ==
    /\ Stopped
    /\ get_stats.active_workers = 0
    /\ \E a \in Rids : \E b \in Rids :
        /\ Finished(a) /\ hist[a].execRaised
        /\ hist[b].abandoned

\* C26: jobs of different requests complete in no fixed order. Jobs are
\* dequeued in the order they were enqueued, but a worker inside a job is
\* never held back by another worker's job, so with two workers job B,
\* enqueued and dequeued after job A, can have its callback delivered and
\* its record terminal while A is still being processed.
C26_NoCompletionOrder ==
    /\ \A a \in Rids : \A b \in Rids :
            (EnqueuedBefore(a, b) /\ hist[b].taken) => hist[a].taken
    /\ \A w \in Workers :
            (InJob(wk[w]) /\ w \notin cancelled) => ENABLED WorkerNext(w)
C26_Witness ==
    \E a \in Rids : \E b \in Rids :
        /\ EnqueuedBefore(a, b)
        /\ hist[a].taken /\ hist[b].taken
        /\ Finished(b) /\ hist[b].got2xx /\ db[b].status = CALLBACK_SUCCESS
        /\ Holders(a) # {} /\ db[a].status \notin Terminal /\ posts[a] = 0

\* C27: COMPLETED belongs to records without a callback URL. A record is
\* COMPLETED only when the sync endpoint has saved it after the executor
\* returned, with the result attached; a record with a callback_url is
\* never COMPLETED; a sync request never has a job in the queue.
C27_CompletedIsSync ==
    \A r \in Rids :
        /\ db[r].status = COMPLETED =>
            /\ db[r].mode = "sync"
            /\ db[r].callback_url = NoUrl
            /\ req[r].pc = "done"
            /\ ~hist[r].execRaised
            /\ db[r].result = compute_work_async(r, body[r])
        /\ db[r].callback_url # NoUrl => db[r].status # COMPLETED
        /\ db[r].mode = "sync" =>
            /\ InQueue(r) = {}
            /\ r \notin EnqueueCalls
            /\ ~hist[r].taken
C27_Witness ==
    \E a \in Rids : \E b \in Rids :
        /\ db[a].mode = "sync" /\ db[a].status = COMPLETED /\ Response(a) = 200
        /\ db[b].mode = "async" /\ db[b].status = CALLBACK_SUCCESS

\* the edges of the status state machine as the claim lists them; the first
\* save of a record (from no record to PENDING or PROCESSING) is its creation
StatedEdges ==
    {<<Absent, PENDING>>, <<Absent, PROCESSING>>,
     <<PENDING, PROCESSING>>,
     <<PROCESSING, CALLBACK_PENDING>>, <<PROCESSING, COMPLETED>>,
     <<CALLBACK_PENDING, CALLBACK_SUCCESS>>, <<CALLBACK_PENDING, CALLBACK_FAILED>>,
     <<PROCESSING, CALLBACK_FAILED>>}
Edge(r) == <<db[r].status, db'[r].status>>

\* C29 as stated: every change of a stored status is one of the stated
\* edges; no other edge, such as PENDING -> CALLBACK_FAILED, is taken.
C29_Original_Step == \A r \in Rids : StatusChanges(r) => Edge(r) \in StatedEdges
C29_Original == [][C29_Original_Step]_vars

\* C29 (amended): every change of a stored status is one of the stated
\* edges or the edge PENDING -> CALLBACK_FAILED, which is taken by the
\* async endpoint alone, when it rejects a request because the queue is
\* full; PROCESSING -> COMPLETED is taken for records without callback_url
\* only, and the status never moves backwards.
Rank(st) ==
    CASE st = Absent -> 0
      [] st = PENDING -> 1
      [] st = PROCESSING -> 2
      [] st = CALLBACK_PENDING -> 3
      [] OTHER -> 4
C29_Step ==
    \A r \in Rids :
        StatusChanges(r) =>
            /\ \/ Edge(r) \in StatedEdges
               \/ /\ Edge(r) = <<PENDING, CALLBACK_FAILED>>
                  /\ req[r].pc = "a_reject"
            /\ Rank(db[r].status) < Rank(db'[r].status)
            /\ db'[r].status = COMPLETED => db'[r].callback_url = NoUrl
C29_StatusEdges == [][C29_Step]_vars
C29_Witness ==
    \E a \in Rids : \E b \in Rids :
        /\ db[a].status = CALLBACK_FAILED /\ req[a].pc = "rejected"
        /\ ~hist[a].taken /\ db[a].result = NoResult
        /\ db[b].status = CALLBACK_SUCCESS /\ hist[b].got2xx

\* C30: a worker saves PROCESSING, runs the executor, saves
\* CALLBACK_PENDING with the result, then enters the dispatcher. Whenever a
\* POST is issued for a request, its stored record is CALLBACK_PENDING and
\* carries the result; the executor is run only for a request whose record
\* is stored as PROCESSING.
C30_StepOrder ==
    \A r \in Rids : \A w \in Holders(r) :
        /\ wk[w].pc = "p_compute" =>
            /\ db[r].status = PROCESSING
            /\ db[r].result = NoResult
            /\ posts[r] = 0
        /\ wk[w].pc = "p_save_pending" => db[r].status = PROCESSING /\ posts[r] = 0
        /\ wk[w].pc = "d_post" =>
            /\ db[r].status = CALLBACK_PENDING
            /\ db[r].result = compute_work_async(r, body[r])
            /\ wk[w].payload.result = db[r].result
C30_Witness ==
    \E r \in Rids : \E w \in Holders(r) :
        /\ wk[w].pc = "d_post"
        /\ posts[r] >= 1
        /\ db[r].status = CALLBACK_PENDING
        /\ db[r].result # NoResult
        /\ db[r].callback_attempts = posts[r]

\* C31: a record whose stored status is CALLBACK_PENDING or CALLBACK_SUCCESS
\* has a result and a completed_at; the attached result is the one the
\* executor produced for the request, whatever the dispatcher has written
\* since (attempt increments, final status).
C31_ResultAttached ==
    \A r \in Rids :
        /\ db[r].status \in {CALLBACK_PENDING, CALLBACK_SUCCESS} =>
                db[r].result # NoResult /\ db[r].completed
        /\ db[r].result # NoResult =>
                /\ db[r].result = compute_work_async(r, body[r])
                /\ db[r].completed
        /\ posts[r] > 0 => db[r].result # NoResult
C31_Witness ==
    \E r \in Rids :
        /\ db[r].status = CALLBACK_SUCCESS
        /\ db[r].callback_attempts >= 2
        /\ db[r].result = compute_work_async(r, body[r])
        /\ db[r].completed

\* C32: whenever a request's job is in the queue, the store holds its
\* record as the async endpoint saved it before enqueueing: status PENDING,
\* callback_attempts 0, no result, no error; nothing has written it since
\* and no worker has the job.
C32_QueuedIsPending ==
    \A r \in Rids :
        InQueue(r) # {} =>
            /\ Cardinality(InQueue(r)) = 1
            /\ db[r].id = r /\ db[r].mode = "async"
            /\ db[r].status = PENDING
            /\ db[r].callback_attempts = 0
            /\ db[r].callback_last_error = None
            /\ db[r].result = NoResult /\ ~db[r].completed
            /\ db[r].callback_url = queue[CHOOSE i \in InQueue(r) : TRUE].callback_url
            /\ req[r].success = "True"
            /\ Holders(r) = {} /\ ~hist[r].taken /\ posts[r] = 0
C32_Witness ==
    /\ Len(queue) = 2
    /\ \A i \in 1..2 : db[queue[i].request_id].status = PENDING
    /\ running /\ active = 0

\* C33: the queue and the workers neither lose nor duplicate an accepted
\* job. At every moment an accepted job is in exactly one place: in the
\* queue (once), in flight in exactly one worker, or finished or abandoned;
\* a job that was handed to a worker is never in the queue again, so
\* _process_request is started at most once for it; and while the pool
\* runs, a queued job in front of an idle worker can be taken.
Accepted(r) == req[r].success = "True"
Queued(r) == Cardinality(InQueue(r)) = 1 /\ Holders(r) = {} /\ ~hist[r].taken
InFlightJob(r) ==
    /\ InQueue(r) = {} /\ Cardinality(Holders(r)) = 1
    /\ hist[r].taken /\ ~hist[r].abandoned
Over(r) == InQueue(r) = {} /\ Holders(r) = {} /\ hist[r].taken
C33_NoLossNoDuplicate ==
    /\ \A r \in Rids :
        IF Accepted(r)
        THEN Queued(r) \/ InFlightJob(r) \/ Over(r)
        ELSE InQueue(r) = {} /\ Holders(r) = {} /\ ~hist[r].taken
    /\ \A w \in Workers :
        (queue # <<>> /\ running /\ wk[w].pc = "idle" /\ w \notin cancelled)
            => \E v \in Workers : ENABLED WorkerGet(v)
C33_Witness ==
    \E b \in Rids : \E c \in Rids :
        /\ Accepted(b) /\ Over(b) /\ hist[b].abandoned
        /\ Accepted(c) /\ Queued(c)
        /\ Stopped

\* C34: start() and stop() are idempotent. Over any series of start and
\* stop calls made one after the other, a running pool has exactly
\* async_worker_count worker tasks, all alive, and an open HTTP client; a
\* stopped pool has no worker task and no client; a start() on a running
\* pool and a stop() on a stopped pool leave the pool as it is.
C34_Idempotent ==
    /\ running =>
        /\ get_stats.total_workers = async_worker_count
        /\ \A w \in Workers : Alive(w)
        /\ http_client
    /\ Stopped =>
        /\ get_stats.total_workers = 0
        /\ \A w \in Workers : wk[w].pc = "none"
        /\ cancelled = {}
        /\ ~http_client
    /\ get_stats.total_workers \in {0, async_worker_count}
C34_Witness ==
    /\ running
    /\ get_stats.total_workers = async_worker_count
    /\ http_client
    /\ \E r \in Rids : hist[r].abandoned
    /\ \E w \in Workers : InJob(wk[w])

\* C35 as stated: the record of a job abandoned by a cancelled worker is
\* left at PROCESSING or CALLBACK_PENDING.
C35_Original ==
    \A r \in Rids : hist[r].abandoned => db[r].status \in {PROCESSING, CALLBACK_PENDING}

\* C35 (amended): when stop() cancels a worker inside a job, the worker
\* starts no further store write for the request: the record keeps what was
\* stored at that moment (status PENDING if PROCESSING had not been saved
\* yet, PROCESSING or CALLBACK_PENDING later) or becomes the record whose
\* save was in flight at that moment, and never changes afterwards; the
\* cancellation does not record a failure. Jobs waiting in the queue stay
\* in the queue, in order, while the pool is not running.
Abandons(r) == ~hist[r].abandoned /\ hist'[r].abandoned
KeepsQueue == \A i \in 1..Len(queue) : Len(queue') >= i /\ queue'[i] = queue[i]
C35_Step ==
    /\ \A r \in Rids :
        /\ hist[r].abandoned => db'[r] = db[r]
        /\ Abandons(r) =>
            \E w \in Holders(r) :
                /\ w \in cancelled
                /\ \/ db'[r] = db[r]
                   \/ wk[w].pc \in SaveStates /\ db'[r] = InFlight(wk[w])
                /\ wk[w].pc \notin {"h_save", "u_save"} => db'[r].status # CALLBACK_FAILED
    /\ ~running => KeepsQueue
C35_AbandonedUntouched == [][C35_Step]_vars
C35_Witness ==
    \E a \in Rids : \E b \in Rids :
        /\ Stopped
        /\ hist[a].abandoned /\ db[a].status = PENDING
        /\ InQueue(b) # {} /\ db[b].status = PENDING

\* C36: enqueue does not look at the running flag. Called while the pool is
\* not running (before start() or after stop()) with the queue below its
\* capacity, it returns true and appends the job. A job put there while
\* the pool was not running waits in the queue with a PENDING record; as
\* long as the pool is not running no worker takes a job, and the waiting
\* job and its record stay as they are. It is taken only once the pool
\* runs again, and then from the head of the queue.
BufferedCold(r) == hist[r].cold
C36_Step ==
    \A r \in Rids :
        /\ (/\ ~running
            /\ req[r].pc = "a_enqueue" /\ req'[r].pc # "a_enqueue"
            /\ Len(queue) < async_queue_max_size)
            => /\ req'[r].success = "True"
               /\ queue' = Append(queue, [request_id |-> r,
                                           callback_url |-> req[r].record.callback_url])
               /\ BufferedCold(r)'
        /\ (~running /\ ~running' /\ Queued(r))
            => Queued(r)' /\ db'[r] = db[r]
        /\ (BufferedCold(r) /\ hist'[r].taken)
            => /\ running
               /\ Head(queue).request_id = r
               /\ queue' = Tail(queue)
C36_State ==
    /\ \A r \in Rids : BufferedCold(r) => Accepted(r) /\ Queued(r) /\ db[r].status = PENDING
    /\ ~running => \A w \in Workers : ~ENABLED WorkerGet(w)
C36_EnqueueIgnoresRunning == [][C36_Step]_vars /\ []C36_State
C36_Witness ==
    \E a \in Rids : \E b \in Rids :
        /\ a < b
        /\ running
        /\ BufferedCold(b) /\ hist[b].ahead = 1 /\ Head(queue).request_id = b
        /\ hist[a].taken /\ db[a].status = PROCESSING

====
